---------------------------- MODULE Spec2Model ----------------------------
(***************************************************************************)
(* Model of the monsti-events module (src/unnamed/part_000, the current    *)
(* revision of src/monsti-events.go): the node context handler, the list   *)
(* view getEventsContext with its query parsing, the partition function    *)
(* getEvents, and the single item view getEventContext.                    *)
(*                                                                         *)
(* Time is an ordinal scale 1..MaxTime; 0 is the zero time.Time, which     *)
(* CacheMods.Expire holds when no expiry is set.  A record is named by its *)
(* position in the list GetChildren returns.  sort.Sort is not stable, so  *)
(* the sort may return every arrangement that is descending by start time; *)
(* the order of the fetched list therefore carries no information and the  *)
(* list is enumerated in ascending start time.  The thumbnail attached to  *)
(* a past record (eventCtx.Image) does not influence any window and is not *)
(* modelled; the fetch itself and its failure are.                         *)
(***************************************************************************)
EXTENDS Integers, Sequences, FiniteSets, TLC

VARIABLES pc, nodeType, embed, query, params, q, upcomingEvents, pastEvents,
          calls, ret

vars == <<pc, nodeType, embed, query, params, q, upcomingEvents, pastEvents,
          calls, ret>>

\* ------------------------------------------------------------------ bounds
MaxEvents == 3
MaxTime == 4
MaxDrift == 1

Times == 1..MaxTime
ZeroTime == 0
NilNode == 0
NodeTypes == {"events.Events", "events.Event", "other"}

\* ------------------------------------------------------- strconv.Atoi
Digits == {"0", "1", "2", "3", "4", "5", "6", "7", "8", "9"}

DigitVal(c) ==
  CASE c = "0" -> 0 [] c = "1" -> 1 [] c = "2" -> 2 [] c = "3" -> 3
    [] c = "4" -> 4 [] c = "5" -> 5 [] c = "6" -> 6 [] c = "7" -> 7
    [] c = "8" -> 8 [] c = "9" -> 9

RECURSIVE DecVal(_)
DecVal(s) ==
  IF s = <<>> THEN 0
  ELSE 10 * DecVal(SubSeq(s, 1, Len(s) - 1)) + DigitVal(s[Len(s)])

\* strconv.Atoi: an optional sign followed by at least one decimal digit.
\* The strings of the model are too short to leave the int range.
Atoi(s) ==
  LET signed == s # <<>> /\ s[1] \in {"-", "+"}
      body == IF signed THEN Tail(s) ELSE s
  IN IF body = <<>> \/ \E i \in 1..Len(body) : body[i] \notin Digits
     THEN [ok |-> FALSE, val |-> 0]
     ELSE [ok |-> TRUE,
           val |-> IF signed /\ s[1] = "-" THEN 0 - DecVal(body) ELSE DecVal(body)]

\* ------------------------------------------------- getEventsContext: query
\* The values of the "limit" parameter the requests of the model carry.
Strings ==
  {<<>>, <<"x">>, <<"-">>, <<"1", "x">>, <<"0">>, <<"-", "0">>, <<"1">>,
   <<"+", "1">>, <<"2">>, <<"-", "1">>, <<"-", "2">>, <<"1", "0">>}

\* url.Values reduced to the keys the handler reads: whether "past" and
\* "upcoming" have a value, and the first value of "limit" ("" when absent).
Queries == [past : BOOLEAN, upcoming : BOOLEAN, limit : Strings]

NoQuery == [past |-> FALSE, upcoming |-> FALSE, limit |-> <<>>]

\* embed: nil, or a URI that url.Parse rejects, or one it accepts with a query
NoEmbed == [set |-> FALSE, parses |-> TRUE, query |-> NoQuery]
Embeds ==
  {NoEmbed} \cup {[set |-> TRUE, parses |-> FALSE, query |-> NoQuery]}
            \cup {[set |-> TRUE, parses |-> TRUE, query |-> qq] : qq \in Queries}

\* the clamp left out
ClampLimit_None(limitParam) == limitParam

ClampLimit(limitParam) == IF limitParam < 1 THEN 1 ELSE limitParam

ParseLimit(s) ==
  LET r == Atoi(s) IN IF r.ok THEN ClampLimit(r.val) ELSE -1

ParseParams(qu) ==
  [pastOnly |-> qu.past, upcomingOnly |-> qu.upcoming, limit |-> ParseLimit(qu.limit)]

NoParams == [pastOnly |-> FALSE, upcomingOnly |-> FALSE, limit |-> -1]

\* ---------------------------------------------------------------- getEvents
\* a record that starts now counted as upcoming
Upcoming_NotBefore(startTime, now) == startTime >= now

\* eventCtx.Upcoming: Time.After(time.Now())
Upcoming(startTime, now) == startTime > now

\* order: left.Before(right)
Order(left, right) == left < right

\* sort.Sort(sort.Reverse(...)): the arrangements of the records in which no
\* record is followed by one the reversed comparator puts before it.
IsSortedReverse(ev, start) ==
  \A i \in 1..Len(ev) : \A j \in 1..Len(ev) :
    i < j => ~Order(start[ev[i]], start[ev[j]])

Arrangements(n) ==
  {f \in [1..n -> 1..n] : \A i \in 1..n : \A j \in 1..n : i # j => f[i] # f[j]}

SortReverse(start) ==
  {ev \in Arrangements(Len(start)) : IsSortedReverse(ev, start)}

EmptyCtx == [Node |-> NilNode]

InitScan(n) ==
  [ctxs |-> [i \in 1..n |-> EmptyCtx], pastIdx |-> 0, pastCount |-> 0,
   fetched |-> <<>>, err |-> FALSE, brk |-> FALSE]

\* the break taken one record early
LimitBreak_Early(limit, pastCount) == limit # -1 /\ pastCount + 1 >= limit

\* the break at the end of the loop body
LimitBreak(limit, pastCount) == limit # -1 /\ pastCount > limit

\* One iteration of the scan loop; idx is the 1-based position (Go's idx+1).
ScanStep(in, st, idx) ==
  LET node == in.events[idx]
      s1 == [st EXCEPT !.ctxs[idx] = [Node |-> node]]
  IN IF idx - 1 = s1.pastIdx /\ Upcoming(in.start[node], in.clock[idx])
     THEN [s1 EXCEPT !.pastIdx = @ + 1,
                     !.brk = LimitBreak(in.limit, s1.pastCount)]
     ELSE IF in.upcomingOnly
          THEN [s1 EXCEPT !.brk = TRUE]
          ELSE LET s2 == [s1 EXCEPT !.pastCount = @ + 1,
                                    !.fetched = Append(@, node)]
               IN IF Len(s2.fetched) = in.failAt
                  THEN [s2 EXCEPT !.err = TRUE]
                  ELSE [s2 EXCEPT !.brk = LimitBreak(in.limit, s2.pastCount)]

RECURSIVE Scan(_, _, _)
Scan(in, st, idx) ==
  IF idx > Len(in.events) \/ st.err \/ st.brk THEN st
  ELSE Scan(in, ScanStep(in, st, idx), idx + 1)

\* the reversal left out
ReversePrefix_None(ctxs, pastIdx) == ctxs

\* the in-place reversal of eventCtxs[0:pastIdx]
ReversePrefix(ctxs, pastIdx) ==
  [i \in 1..Len(ctxs) |-> IF i <= pastIdx THEN ctxs[pastIdx + 1 - i] ELSE ctxs[i]]

\* the limit not applied to the past window
PastEnd_Unlimited(len, pastIdx, limit, upcomingOnly) ==
  IF upcomingOnly THEN pastIdx ELSE len

\* upcomingOnly not applied to the past window
PastEnd_IgnoreUpcomingOnly(len, pastIdx, limit, upcomingOnly) ==
  IF limit # -1 /\ len > pastIdx + limit THEN pastIdx + limit ELSE len

PastEnd(len, pastIdx, limit, upcomingOnly) ==
  IF upcomingOnly THEN pastIdx
  ELSE IF limit # -1 /\ len > pastIdx + limit THEN pastIdx + limit
  ELSE len

\* pastOnly not applied to the upcoming window
UpcomingEnd_IgnorePastOnly(pastIdx, pastOnly) == pastIdx

UpcomingEnd(pastIdx, pastOnly) == IF pastOnly THEN 0 ELSE pastIdx

\* getEvents after the candidate list has been fetched and sorted.
\* in: events (sorted record names), start, clock (the reading of time.Now()
\* in each iteration), pastOnly, upcomingOnly, limit, failAt (which thumbnail
\* fetch fails, 0 for none).
GetEvents(in) ==
  LET st == Scan(in, InitScan(Len(in.events)), 1)
      ctxs == ReversePrefix(st.ctxs, st.pastIdx)
      pastEnd == PastEnd(Len(ctxs), st.pastIdx, in.limit, in.upcomingOnly)
      upcomingEnd == UpcomingEnd(st.pastIdx, in.pastOnly)
  IN IF st.err
     THEN [err |-> TRUE, upcoming |-> <<>>, past |-> <<>>, fetched |-> st.fetched]
     ELSE [err |-> FALSE,
           upcoming |-> SubSeq(ctxs, 1, upcomingEnd),
           past |-> SubSeq(ctxs, st.pastIdx + 1, pastEnd),
           fetched |-> st.fetched]

\* ------------------------------------------------------------ environment
\* The candidate lists the storage can return (ascending start time).
StartLists ==
  UNION {{s \in [1..n -> Times] : \A i \in 1..n : \A j \in 1..n :
                                     i < j => s[i] <= s[j]} : n \in 0..MaxEvents}

\* The readings of time.Now(): now0 until iteration tickAt, now0+drift from it.
Clock(n, now0, drift, tickAt) ==
  [i \in 1..n |-> IF i >= tickAt THEN now0 + drift ELSE now0]

NoQ == [valid |-> FALSE, start |-> <<>>]

NoRet == [ctx |-> "none", mods |-> "none", err |-> "none"]

Mods(descend, expire) == [Descend |-> descend, Expire |-> expire]

\* a failure that still returns a rendered fragment
Failure_Partial(msg) == [ctx |-> "EventList", mods |-> "nil", err |-> msg]

\* return nil, nil, fmt.Errorf(msg)
Failure(msg) == [ctx |-> "nil", mods |-> "nil", err |-> msg]

\* ------------------------------------------------------------------- Init
Init ==
  /\ pc = "idle"
  /\ nodeType = "other"
  /\ embed = NoEmbed
  /\ query = NoQuery
  /\ params = NoParams
  /\ q = NoQ
  /\ upcomingEvents = <<>>
  /\ pastEvents = <<>>
  /\ calls = <<>>
  /\ ret = NoRet

Call(op, ok) == [op |-> op, ok |-> ok]

\* The node context handler up to the dispatch on the node type.
NodeContextHandler ==
  /\ pc = "idle"
  /\ \E nt \in NodeTypes, emb \in Embeds, ok \in BOOLEAN :
       /\ nodeType' = nt
       /\ embed' = emb
       /\ calls' = <<Call("Sessions.New", ok)>>
       /\ IF ~ok
          THEN pc' = "done" /\ ret' = Failure("Could not get session")
          ELSE IF nt = "events.Events"
               THEN pc' = "getEventsContext" /\ ret' = NoRet
               ELSE IF nt = "events.Event"
                    THEN pc' = "getEventContext" /\ ret' = NoRet
                    ELSE pc' = "done" /\ ret' = [ctx |-> "nil", mods |-> "nil", err |-> "nil"]
  /\ UNCHANGED <<query, params, q, upcomingEvents, pastEvents>>

\* s.Monsti().GetRequest(reqId) in either view
GetRequest ==
  /\ pc \in {"getEventsContext", "getEventContext"}
  /\ \E ok \in BOOLEAN, rq \in Queries :
       /\ calls' = Append(calls, Call("GetRequest", ok))
       /\ IF ~ok
          THEN /\ rq = NoQuery
               /\ pc' = "done"
               /\ ret' = Failure("Could not get request")
               /\ query' = query
          ELSE /\ pc' = IF pc = "getEventsContext" THEN "query" ELSE "images"
               /\ ret' = ret
               /\ query' = rq
  /\ UNCHANGED <<nodeType, embed, params, q, upcomingEvents, pastEvents>>

\* getEventsContext: the embed URI and the query parameters
ParseQuery ==
  /\ pc = "query"
  /\ IF embed.set /\ ~embed.parses
     THEN /\ calls' = Append(calls, Call("url.Parse", FALSE))
          /\ pc' = "done"
          /\ ret' = Failure("Could not parse embed URI")
          /\ UNCHANGED <<query, params>>
     ELSE /\ calls' = IF embed.set THEN Append(calls, Call("url.Parse", TRUE)) ELSE calls
          /\ query' = IF embed.set THEN embed.query ELSE query
          /\ params' = ParseParams(query')
          /\ pc' = "getEvents"
          /\ ret' = ret
  /\ UNCHANGED <<nodeType, embed, q, upcomingEvents, pastEvents>>

FetchCalls(fetched, failAt) ==
  [i \in 1..Len(fetched) |-> Call("GetChildren(event)", i # failAt)]

\* getEvents: dataServ.GetChildren(req.Site, "/aktionen").  The request's
\* query and the embed URI are not read again by the model.
FetchEvents ==
  /\ pc = "getEvents"
  /\ \/ /\ calls' = Append(calls, Call("GetChildren(/aktionen)", FALSE))
        /\ pc' = "done"
        /\ ret' = Failure("Could not retrieve events")
        /\ q' = q
     \/ \E start \in StartLists :
          /\ calls' = Append(calls, Call("GetChildren(/aktionen)", TRUE))
          /\ pc' = "sort"
          /\ ret' = ret
          /\ q' = [valid |-> FALSE, start |-> start]
  /\ query' = NoQuery
  /\ embed' = NoEmbed
  /\ UNCHANGED <<nodeType, params, upcomingEvents, pastEvents>>

\* getEvents: the sort, the scan with its thumbnail fetches, and the windows
Partition ==
  /\ pc = "sort"
  /\ \E ev \in SortReverse(q.start) :
     \E now0 \in Times, drift \in 0..MaxDrift :
     \E tickAt \in (IF drift = 0 THEN {1} ELSE 1..Len(q.start)) :
     \E failAt \in 0..Len(q.start) :
       LET in == [events |-> ev, start |-> q.start,
                  clock |-> Clock(Len(q.start), now0, drift, tickAt),
                  pastOnly |-> params.pastOnly,
                  upcomingOnly |-> params.upcomingOnly,
                  limit |-> params.limit, failAt |-> failAt]
           r == GetEvents(in)
       IN /\ failAt > 0 => r.err
          /\ calls' = calls \o FetchCalls(r.fetched, failAt)
          /\ q' = [valid |-> TRUE, in |-> in, now0 |-> now0, drift |-> drift,
                   fetched |-> r.fetched]
          /\ IF r.err
             THEN /\ pc' = "done"
                  /\ ret' = Failure("Could not retrieve events")
                  /\ UNCHANGED <<upcomingEvents, pastEvents>>
             ELSE /\ pc' = "render"
                  /\ ret' = ret
                  /\ upcomingEvents' = r.upcoming
                  /\ pastEvents' = r.past
  /\ UNCHANGED <<nodeType, embed, query, params>>

\* getEventsContext: expire is the start time of the first upcoming item
Expire(upcoming, start) ==
  IF Len(upcoming) > 0 THEN start[upcoming[1].Node] ELSE ZeroTime

\* getEventsContext: the render call and the cache descriptor
RenderList ==
  /\ pc = "render"
  /\ \E ok \in BOOLEAN :
       /\ calls' = Append(calls, Call("Render(events/event-list)", ok))
       /\ ret' = IF ok
                 THEN [ctx |-> "EventList",
                       mods |-> Mods(2, Expire(upcomingEvents, q.in.start)),
                       err |-> "nil"]
                 ELSE Failure("Could not render template")
  /\ pc' = "done"
  /\ UNCHANGED <<nodeType, embed, query, params, q, upcomingEvents, pastEvents>>

\* getEventContext: the item's children
FetchImages ==
  /\ pc = "images"
  /\ \E ok \in BOOLEAN :
       /\ calls' = Append(calls, Call("GetChildren(node)", ok))
       /\ IF ok
          THEN pc' = "renderImages" /\ ret' = ret
          ELSE pc' = "done" /\ ret' = Failure("Could not fetch images")
  /\ query' = NoQuery
  /\ UNCHANGED <<nodeType, embed, params, q, upcomingEvents, pastEvents>>

\* getEventContext: the render call and the cache descriptor
RenderImages ==
  /\ pc = "renderImages"
  /\ \E ok \in BOOLEAN :
       /\ calls' = Append(calls, Call("Render(events/event-images)", ok))
       /\ ret' = IF ok
                 THEN [ctx |-> "EventImages", mods |-> Mods(1, ZeroTime), err |-> "nil"]
                 ELSE Failure("Could not render template")
  /\ pc' = "done"
  /\ UNCHANGED <<nodeType, embed, query, params, q, upcomingEvents, pastEvents>>

\* The handler has returned; the next signal starts from a fresh state.
Return ==
  /\ pc = "done"
  /\ pc' = "idle"
  /\ nodeType' = "other"
  /\ embed' = NoEmbed
  /\ query' = NoQuery
  /\ params' = NoParams
  /\ q' = NoQ
  /\ upcomingEvents' = <<>>
  /\ pastEvents' = <<>>
  /\ calls' = <<>>
  /\ ret' = NoRet

Next ==
  \/ NodeContextHandler
  \/ GetRequest
  \/ ParseQuery
  \/ FetchEvents
  \/ Partition
  \/ RenderList
  \/ FetchImages
  \/ RenderImages
  \/ Return

Spec == Init /\ [][Next]_vars

\* ------------------------------------------------------------ properties
\* getEvents has returned its two windows to getEventsContext
Returned == pc = "render"

\* the clock did not advance during the query: one evaluation instant, q.now0
FixedNow == q.drift = 0

NoFlags == ~params.pastOnly /\ ~params.upcomingOnly

NodesOf(w) == {w[i].Node : i \in 1..Len(w)}

NoDuplicates(w) == Cardinality(NodesOf(w)) = Len(w)

StartOf(w, i) == q.in.start[w[i].Node]

Records == 1..Len(q.in.start)

UpcomingRecords == {r \in Records : q.in.start[r] > q.now0}

PastRecords == {r \in Records : q.in.start[r] <= q.now0}

Min(a, b) == IF a < b THEN a ELSE b

\* the same query with other flags, run to the end without a failing fetch
Rerun(pastOnly, upcomingOnly) ==
  GetEvents([q.in EXCEPT !.pastOnly = pastOnly, !.upcomingOnly = upcomingOnly,
                         !.failAt = 0])

\* the same query at the fixed instant t
RerunAt(t) ==
  GetEvents([q.in EXCEPT !.clock = [i \in 1..Len(q.in.start) |-> t], !.failAt = 0])

\* C1: with a fixed evaluation instant, no flag and limit -1, Upcoming and
\* Past are disjoint, hold every input record exactly once, Upcoming being
\* exactly the records that start strictly after now and Past the others;
\* for every flags and limit the two windows hold at most |input| entries.
C1_Partition ==
  Returned =>
    /\ Len(upcomingEvents) + Len(pastEvents) <= Len(q.in.start)
    /\ (FixedNow /\ NoFlags /\ params.limit = -1) =>
         /\ Len(upcomingEvents) + Len(pastEvents) = Len(q.in.start)
         /\ NodesOf(upcomingEvents) = UpcomingRecords
         /\ NodesOf(pastEvents) = PastRecords
         /\ NoDuplicates(upcomingEvents)
         /\ NoDuplicates(pastEvents)
         /\ NodesOf(upcomingEvents) \cap NodesOf(pastEvents) = {}

C1_Witness ==
  /\ Returned /\ FixedNow /\ NoFlags /\ params.limit = -1
  /\ Len(q.in.start) = MaxEvents
  /\ Len(upcomingEvents) >= 1
  /\ Len(pastEvents) >= 2
  /\ \E i \in 1..Len(pastEvents) : StartOf(pastEvents, i) = q.now0

\* C2: for every input, flags and limit, Upcoming is ascending by start time
\* and Past is descending by start time; records with equal start times are
\* adjacent within a window.
TiesAdjacent(w) ==
  \A i \in 1..Len(w) : \A j \in 1..Len(w) : \A k \in 1..Len(w) :
    (i < k /\ k < j /\ StartOf(w, i) = StartOf(w, j)) => StartOf(w, k) = StartOf(w, i)

C2_Ordered ==
  Returned =>
    /\ \A i \in 1..Len(upcomingEvents) : \A j \in 1..Len(upcomingEvents) :
         i < j => StartOf(upcomingEvents, i) <= StartOf(upcomingEvents, j)
    /\ \A i \in 1..Len(pastEvents) : \A j \in 1..Len(pastEvents) :
         i < j => StartOf(pastEvents, i) >= StartOf(pastEvents, j)
    /\ TiesAdjacent(upcomingEvents)
    /\ TiesAdjacent(pastEvents)

C2_Witness ==
  /\ Returned
  /\ Len(upcomingEvents) = 2
  /\ StartOf(upcomingEvents, 1) < StartOf(upcomingEvents, 2)
  /\ Len(pastEvents) = 1

\* The scenario of C3: start times T-3d, T-1d, T+2d, T+5d on the ordinal
\* scale, now = T, limit 1, no flags.
ScenarioC3 ==
  GetEvents([events |-> <<4, 3, 2, 1>>, start |-> <<1, 2, 4, 5>>,
             clock |-> <<3, 3, 3, 3>>, pastOnly |-> FALSE,
             upcomingOnly |-> FALSE, limit |-> 1, failAt |-> 0])

C4_PastWindow ==
  (Returned /\ FixedNow /\ ~params.upcomingOnly /\ params.limit >= 1) =>
    /\ Len(pastEvents) = Min(params.limit, Cardinality(PastRecords))
    /\ NoDuplicates(pastEvents)
    /\ \A i \in 1..Len(pastEvents) :
         /\ pastEvents[i].Node # NilNode
         /\ pastEvents[i].Node \in PastRecords
         /\ \E k \in 1..Len(q.fetched) : q.fetched[k] = pastEvents[i].Node
         /\ \A r \in PastRecords \ NodesOf(pastEvents) :
              q.in.start[r] <= StartOf(pastEvents, i)

C4_Witness ==
  /\ Returned /\ FixedNow /\ ~params.upcomingOnly /\ params.limit = 1
  /\ Cardinality(PastRecords) = 2
  /\ Len(pastEvents) = 1
  /\ \E r \in PastRecords : q.in.start[r] < StartOf(pastEvents, 1)

\* the per-record thumbnail fetches of the query
ThumbnailCalls == {i \in 1..Len(calls) : calls[i].op = "GetChildren(event)"}

\* C5: with upcomingOnly set and pastOnly unset the Past window is empty, no
\* thumbnail fetch is issued, and the Upcoming window is the one the same
\* query returns with no flag set.
C5_UpcomingOnly ==
  (Returned /\ params.upcomingOnly /\ ~params.pastOnly) =>
    /\ pastEvents = <<>>
    /\ q.fetched = <<>>
    /\ ThumbnailCalls = {}
    /\ upcomingEvents = Rerun(FALSE, FALSE).upcoming

C5_Witness ==
  /\ Returned /\ params.upcomingOnly /\ ~params.pastOnly
  /\ Len(upcomingEvents) >= 1
  /\ Rerun(FALSE, FALSE).past # <<>>

\* C6 as stated: with pastOnly and upcomingOnly both set the windows are the
\* ones upcomingOnly alone returns.
C6_BothAsUpcomingOnly ==
  (Returned /\ params.upcomingOnly /\ params.pastOnly) =>
    /\ upcomingEvents = Rerun(FALSE, TRUE).upcoming
    /\ pastEvents = Rerun(FALSE, TRUE).past

\* C6 amended: with pastOnly and upcomingOnly both set the Past window is the
\* (empty) one upcomingOnly alone returns and no thumbnail is fetched, but
\* the Upcoming window is empty too: it equals the Upcoming window of
\* upcomingOnly alone only when no record is upcoming.
C6_BothFlagsEmpty ==
  (Returned /\ params.upcomingOnly /\ params.pastOnly) =>
    /\ pastEvents = Rerun(FALSE, TRUE).past
    /\ pastEvents = <<>>
    /\ q.fetched = Rerun(FALSE, TRUE).fetched
    /\ ThumbnailCalls = {}
    /\ upcomingEvents = <<>>
    /\ (upcomingEvents = Rerun(FALSE, TRUE).upcoming) <=> (Rerun(FALSE, TRUE).upcoming = <<>>)

C6_Witness ==
  /\ Returned /\ params.upcomingOnly /\ params.pastOnly
  /\ Len(Rerun(FALSE, TRUE).upcoming) >= 2
  /\ upcomingEvents = <<>>

\* C7: there is a single instant T with every record of Upcoming starting
\* strictly after T and every record of Past starting at or before T, also
\* when the clock advances during the query; in particular records with
\* equal start times are never split across the two windows.
C7_SingleInstant ==
  Returned =>
    \E t \in 0..(MaxTime + MaxDrift) :
      /\ \A i \in 1..Len(upcomingEvents) : StartOf(upcomingEvents, i) > t
      /\ \A i \in 1..Len(pastEvents) : StartOf(pastEvents, i) <= t

\* C8: expireAt is the start time of the soonest upcoming record of the
\* result (unset when there is none), and re-running the query at any
\* instant from now up to expireAt (at any later instant when expireAt is
\* unset) returns the same windows, for every flags and limit.
C8_ExpireIsFirstStale ==
  (pc = "done" /\ ret.ctx = "EventList" /\ FixedNow) =>
    /\ ret.mods.Expire = (IF upcomingEvents = <<>> THEN ZeroTime
                           ELSE StartOf(upcomingEvents, 1))
    /\ \A t \in q.now0..(MaxTime + 1) :
         (ret.mods.Expire = ZeroTime \/ t < ret.mods.Expire) =>
           /\ RerunAt(t).upcoming = upcomingEvents
           /\ RerunAt(t).past = pastEvents

\* C9: a collaborator failure ends the query: the handler returns an error
\* with no fragments and no cache descriptor, the failed call is the last
\* call made (no retry, no later step), and after an unparseable embed URI
\* neither a children fetch nor a render call is made.
Failed(i) == ~calls[i].ok

C9_FailureIsTerminal ==
  /\ \A i \in 1..Len(calls) : Failed(i) =>
       /\ i = Len(calls)
       /\ pc = "done"
       /\ ret.ctx = "nil"
       /\ ret.mods = "nil"
       /\ ret.err \notin {"nil", "none"}
       /\ \A j \in 1..(i - 1) : calls[j].op # calls[i].op \/ calls[j].ok
  /\ (\E i \in 1..Len(calls) : calls[i].op = "url.Parse" /\ Failed(i)) =>
       \A j \in 1..Len(calls) :
         calls[j].op \in {"Sessions.New", "GetRequest", "url.Parse"}
  /\ (pc = "done" /\ ret.ctx \notin {"nil", "none"}) =>
       \A i \in 1..Len(calls) : calls[i].ok

C9_Witness ==
  /\ pc = "done"
  /\ Len(calls) >= 5
  /\ calls[Len(calls)].op = "GetChildren(event)"
  /\ Failed(Len(calls))
  /\ ret.err = "Could not retrieve events"

\* C10: a limit parameter that parses to 0 or to a negative integer other
\* than -1 gives the parameters a limit parameter of 1 gives; an absent or
\* unparseable limit parameter is no error and gives the limit -1; the limit
\* handed to getEvents is -1 or at least 1.
C10_LimitClamp ==
  /\ pc = "getEvents" =>
       /\ query.limit \in {<<"0">>, <<"-", "0">>, <<"-", "2">>} =>
            params = ParseParams([query EXCEPT !.limit = <<"1">>])
       /\ query.limit \in {<<>>, <<"x">>, <<"-">>, <<"1", "x">>} =>
            params.limit = -1
       /\ query.limit = <<"1">> => params.limit = 1
  /\ pc \in {"getEvents", "sort", "render"} =>
       (params.limit = -1 \/ params.limit >= 1)
  /\ q.valid => (q.in.limit = -1 \/ q.in.limit >= 1)

C10_Witness ==
  /\ pc = "getEvents"
  /\ query.limit = <<"-", "2">>
  /\ params.limit = 1

\* C11: with a limit L # -1 the number of thumbnail fetch attempts of one
\* query never exceeds L, and thumbnails are fetched (and a fetch can fail)
\* only for records that end up in the returned Past window.
C11_FetchesWithinLimit ==
  (q.valid /\ params.limit # -1) =>
    /\ Len(q.fetched) <= params.limit
    /\ Cardinality(ThumbnailCalls) <= params.limit
    /\ Returned =>
         \A k \in 1..Len(q.fetched) : q.fetched[k] \in NodesOf(pastEvents)

=============================================================================
